---- MODULE Spec2Model ----
(***************************************************************************)
(* A model of wcmi/nn/interface.py: the training entry point train() and   *)
(* the inference entry point run().                                        *)
(*                                                                         *)
(* One behaviour is one process working on one CSV file and one model      *)
(* file: train() and run() are called one after the other, any number of   *)
(* times, each call with its own arguments.  The process-wide random       *)
(* source of torch is the variable rng.  Numbers that the code holds as    *)
(* floats (losses, predictions, bounds, latent parameters) are integers of *)
(* an arbitrary fixed unit here.                                           *)
(***************************************************************************)
EXTENDS Integers, Sequences, FiniteSets, TLC

(***************************************************************************)
(* Bounds of the model.                                                    *)
(***************************************************************************)
MaxSamples == 4
MaxEpochs == 3
MaxGanN == 2
MaxNumberLen == 9
NumRngStates == 2

(***************************************************************************)
(* The schema descriptor simulation.simulation_info and the constants of   *)
(* wcmi.nn.data, scaled down.                                              *)
(***************************************************************************)
num_sim_inputs == 2
num_sim_outputs == 1
testing_split_seed == 1
\* data.test_proportion as a fraction <<numerator, denominator>>
TestProportions == {<<1, 5>>, <<1, 4>>}
\* simulation_info.sim_input_mins / sim_input_maxs, one per label column
sim_input_mins == [j \in 1..num_sim_inputs |-> 0]
sim_input_maxs == [j \in 1..num_sim_inputs |-> j]

None == "None"
Path == "path"

Min(a, b) == IF a <= b THEN a ELSE b
Max(a, b) == IF a >= b THEN a ELSE b
Range(s) == {s[i] : i \in 1..Len(s)}

RECURSIVE Sum(_)
Sum(s) == IF s = <<>> THEN 0 ELSE s[1] + Sum(Tail(s))

(***************************************************************************)
(* Python helpers.                                                         *)
(***************************************************************************)
\* s[a:b] of Python for 0 <= a <= b: the slice is clipped to the length.
Slice(s, a, b) == SubSeq(s, Min(a, Len(s)) + 1, Min(b, Len(s)))

\* round(num / den) of Python 3 for num >= 0: halves go to the even neighbour.
PyRound(num, den) ==
    LET q == num \div den
        r == num % den
    IN  IF 2 * r < den THEN q
        ELSE IF 2 * r > den THEN q + 1
        ELSE IF q % 2 = 0 THEN q ELSE q + 1

(***************************************************************************)
(* The random source.  A generator state is a number; seeding with a known *)
(* seed gives a known state, every draw is a function of the state and     *)
(* moves the state on, and torch.random.seed() takes an unpredictable one. *)
(***************************************************************************)
RngStates == 0..(NumRngStates - 1)

manual_seed(seed) == seed % NumRngStates

Advance(g) == (g + 1) % NumRngStates

RECURSIVE Factorial(_)
Factorial(n) == IF n <= 1 THEN 1 ELSE n * Factorial(n - 1)

RemoveAt(s, i) == SubSeq(s, 1, i - 1) \o SubSeq(s, i + 1, Len(s))

\* The k-th arrangement of the sequence s, 0 <= k < Len(s)!.
RECURSIVE Unrank(_, _)
Unrank(k, s) ==
    IF Len(s) = 0 THEN <<>>
    ELSE LET f == Factorial(Len(s) - 1)
             i == (k \div f) + 1
         IN  <<s[i]>> \o Unrank(k % f, RemoveAt(s, i))

\* torch.randperm(n) drawn in generator state g: a permutation of 1..n.
randperm(g, n) == Unrank(((g + 1) * 5) % Factorial(n), [i \in 1..n |-> i])

\* x[perm]: the rows of x in the order perm names.
Index(x, perm) == [i \in 1..Len(perm) |-> x[perm[i]]]

\* The width of x[:, a:b] for a table x of `width` columns.
SliceCols(width, a, b) == Min(b, width) - Min(a, width)

(***************************************************************************)
(* BatchScheduler arithmetic of train().                                   *)
(***************************************************************************)
ClampBatchSize(requested, n) ==
    LET b1 == IF requested <= 0 THEN n ELSE requested
    IN  IF b1 > n THEN n ELSE b1

\* (a plan that rounds down)
NumBatchesFloor(n, b) == n \div b

NumBatches(n, b) == (n + b - 1) \div b

FinalBatchSize(n, b) == IF n % b = 0 THEN b ELSE n % b

num_sim_in_columns == num_sim_inputs
num_sim_in_out_columns == num_sim_in_columns + num_sim_outputs

(***************************************************************************)
(* State.                                                                  *)
(***************************************************************************)
VARIABLES
    \* the files on disk and the build-time configuration
    csv_n,              \* rows of the CSV file
    csv_gan_cols,       \* GAN generation columns of the CSV file
    csv_input,          \* the input value of every CSV row
    test_proportion,    \* data.test_proportion
    \* the process
    pc,                 \* position of the running call
    error,              \* the WCMIError raised, or None
    effects,            \* what the running call has done so far, in order
    args,               \* the arguments of the running call
    rng,                \* the state of torch's global generator
    \* train(): sizes
    num_samples, num_testing_samples, num_training_samples, batch_size,
    num_batches, final_batch_size,
    num_training_batches, final_training_batch_size,
    num_testing_batches, final_testing_batch_size,
    \* train(): tensors, as sequences of CSV row numbers
    all_data, all_data_cols,
    testing_data, training_data, testing_input, training_input,
    \* train(): the epoch and batch loops
    epoch, batch,
    batch_input,            \* the rows of the batch just processed
    training_batch_lens,    \* len(batch_input) of this epoch's training batches
    testing_batch_lens,     \* len(batch_input) of this epoch's testing batches
    \* train(): adversarial training
    gan_gen_params,         \* the latent parameters of the batch just processed
    current_epoch_num_generator_training_samples,
    current_epoch_num_discriminator_training_samples,
    discriminator_loss_x2,  \* twice discriminator_loss: the sum of its two means
    generator_loss,
    pause_rule,             \* the branch of lines 691-708 the batch took, 1..5
    pause_discriminator, pause_generator,
    samples_at_batch_start, \* the discriminator's counter when the batch began
    epoch_losses,           \* columns 6..8 of the rows written so far
    second_pass_labels,     \* the label argument of the discriminator's second pass
    \* train(), the per-epoch buffers (current_epoch_training_losses and
    \* current_epoch_testing_losses in the adversarial trainer)
    current_epoch_training_errors,
    current_epoch_testing_errors,
    events,                 \* what every batch of the call did, in order
    \* train(), regression statistics
    epoch_training_mse,     \* per epoch, the training MSE recorded in it
    epoch_testing_mse,      \* per epoch, the testing MSE recorded in it
    mse_output,             \* <<the MSE table written to save_data_path>>, or <<>>
    stat_report,            \* <<the statistics report's inputs and its width>>, or <<>>
    \* run()
    model_w,                \* the weights in the model file run() loads
    npoutput,               \* the predictions, one tuple per CSV row
    run_gan_gen_params,     \* <<the latent parameters run() sampled>>, or <<>>
    output_columns,         \* the column names of the output table
    output,                 \* the CSV rows of the output table, in order
    messages,               \* what run() has logged about its predictions
    saved,                  \* <<the table handed to simulation_data.save>>, or <<>>
    \* the previous calls of this process, for comparing two calls
    prev_split,             \* <<the partitions of the last train() that split>>
    prev_run                \* <<the results of the last run() that saved>>

diskVars == <<csv_n, csv_gan_cols, csv_input, test_proportion, model_w>>
sizeVars == <<num_samples, num_testing_samples, num_training_samples, batch_size,
              num_batches, final_batch_size,
              num_training_batches, final_training_batch_size,
              num_testing_batches, final_testing_batch_size>>
dataVars == <<all_data, all_data_cols,
              testing_data, training_data, testing_input, training_input>>
loopVars == <<epoch, batch, batch_input, training_batch_lens, testing_batch_lens>>
ganVars  == <<gan_gen_params,
              current_epoch_num_generator_training_samples,
              current_epoch_num_discriminator_training_samples,
              discriminator_loss_x2, generator_loss,
              pause_rule, pause_discriminator, pause_generator,
              samples_at_batch_start, epoch_losses>>
mseVars == <<epoch_training_mse, epoch_testing_mse, mse_output, stat_report>>
bufVars == <<current_epoch_training_errors, current_epoch_testing_errors>>
trainVars == <<sizeVars, dataVars, loopVars, ganVars, second_pass_labels, mseVars,
               bufVars, events>>
runVars == <<npoutput, run_gan_gen_params, output_columns, output, messages, saved>>
histVars == <<prev_split, prev_run>>
vars == <<diskVars, pc, error, effects, args, rng, trainVars, runVars, histVars>>

(***************************************************************************)
(* Arguments.                                                              *)
(***************************************************************************)
Paths == {None, Path}
BatchSizeArgs == (-1)..(MaxSamples + 1)
NumEpochsArgs == 0..MaxEpochs
GanNArgs == 1..MaxGanN

NoArgs == [call |-> None]

\* The pause arguments of a call that leaves them at values under which
\* nothing is ever paused.
NoPause ==
    [gan_enable_pause |-> FALSE, gan_training_pause_threshold |-> 1,
     pause_min_samples_per_epoch |-> 0, pause_min_epochs |-> 0,
     pause_max_epochs |-> 0]

PauseArgs ==
    {NoPause} \cup
    [gan_enable_pause : {TRUE}, gan_training_pause_threshold : {0, 1},
     pause_min_samples_per_epoch : {0, 2}, pause_min_epochs : {0, 1},
     pause_max_epochs : {0, 1}]

TrainArgRecords(UseGan, SaveModel, LoadData, SaveData, GanN, Epochs, Batch, Force, Pause) ==
    {[call |-> "train", use_gan |-> u, save_model_path |-> sm,
      load_data_path |-> ld, save_data_path |-> sd, gan_n |-> gn,
      num_epochs |-> ne, batch_size |-> bs,
      gan_force_fixed_gen_params |-> f, pause |-> ps] :
        u \in UseGan, sm \in SaveModel, ld \in LoadData,
        sd \in SaveData, gn \in GanN, ne \in Epochs,
        bs \in Batch, f \in Force, ps \in Pause}

(***************************************************************************)
(* Initial state: nothing is running.                                      *)
(***************************************************************************)
NoParams == [fixed |-> FALSE, cols |-> 0, rows |-> <<>>]

\* The input column of the CSV file's row i.
CsvInput(i) == (2 * (i - 1)) % 3

\* The model files run() is tried with: one weight per label column.
Weights == {<<0, 0>>, <<1, 1>>, <<0, 1>>, <<-1, 1>>}

\* A process that has called nothing yet, with a CSV file and a model file
\* from the given sets.
Start(rows, gan_cols, proportions, weights) ==
    /\ csv_n \in rows
    /\ csv_gan_cols \in gan_cols
    /\ csv_input = [i \in 1..csv_n |-> CsvInput(i)]
    /\ test_proportion \in proportions
    /\ model_w \in weights
    /\ pc = "idle" /\ error = None /\ effects = <<>> /\ args = NoArgs
    /\ rng \in RngStates
    /\ num_samples = 0 /\ num_testing_samples = 0 /\ num_training_samples = 0
    /\ batch_size = 0 /\ num_batches = 0 /\ final_batch_size = 0
    /\ num_training_batches = 0 /\ final_training_batch_size = 0
    /\ num_testing_batches = 0 /\ final_testing_batch_size = 0
    /\ all_data = <<>> /\ all_data_cols = 0
    /\ testing_data = <<>> /\ training_data = <<>>
    /\ testing_input = <<>> /\ training_input = <<>>
    /\ epoch = 0 /\ batch = 0 /\ batch_input = <<>>
    /\ training_batch_lens = <<>> /\ testing_batch_lens = <<>>
    /\ gan_gen_params = NoParams
    /\ current_epoch_num_generator_training_samples = 0
    /\ current_epoch_num_discriminator_training_samples = 0
    /\ discriminator_loss_x2 = 0 /\ generator_loss = 0
    /\ pause_rule = 0 /\ pause_discriminator = FALSE /\ pause_generator = FALSE
    /\ samples_at_batch_start = 0 /\ epoch_losses = <<>>
    /\ second_pass_labels = <<>> /\ events = <<>>
    /\ current_epoch_training_errors = <<>> /\ current_epoch_testing_errors = <<>>
    /\ epoch_training_mse = <<>> /\ epoch_testing_mse = <<>> /\ mse_output = <<>>
    /\ stat_report = <<>>
    /\ npoutput = <<>> /\ run_gan_gen_params = <<>> /\ output_columns = <<>>
    /\ output = <<>> /\ messages = <<>> /\ saved = <<>>
    /\ prev_split = <<>> /\ prev_run = <<>>

\* The locals of a call are gone when it has returned.
ClearLocals ==
    /\ num_samples' = 0 /\ num_testing_samples' = 0 /\ num_training_samples' = 0
    /\ batch_size' = 0 /\ num_batches' = 0 /\ final_batch_size' = 0
    /\ num_training_batches' = 0 /\ final_training_batch_size' = 0
    /\ num_testing_batches' = 0 /\ final_testing_batch_size' = 0
    /\ all_data' = <<>> /\ all_data_cols' = 0
    /\ testing_data' = <<>> /\ training_data' = <<>>
    /\ testing_input' = <<>> /\ training_input' = <<>>
    /\ epoch' = 0 /\ batch' = 0 /\ batch_input' = <<>>
    /\ training_batch_lens' = <<>> /\ testing_batch_lens' = <<>>
    /\ gan_gen_params' = NoParams
    /\ current_epoch_num_generator_training_samples' = 0
    /\ current_epoch_num_discriminator_training_samples' = 0
    /\ discriminator_loss_x2' = 0 /\ generator_loss' = 0
    /\ pause_rule' = 0 /\ pause_discriminator' = FALSE /\ pause_generator' = FALSE
    /\ samples_at_batch_start' = 0 /\ epoch_losses' = <<>>
    /\ second_pass_labels' = <<>> /\ events' = <<>>
    /\ current_epoch_training_errors' = <<>>
    /\ current_epoch_testing_errors' = <<>>
    /\ epoch_training_mse' = <<>> /\ epoch_testing_mse' = <<>>
    /\ mse_output' = <<>> /\ stat_report' = <<>>
    /\ npoutput' = <<>> /\ run_gan_gen_params' = <<>> /\ output_columns' = <<>>
    /\ output' = <<>> /\ messages' = <<>> /\ saved' = <<>>

(***************************************************************************)
(* train(): from the call to the epoch loop.                               *)
(***************************************************************************)
Raise(e) == pc' = "raised" /\ error' = e

\* (a verification that forgets num_epochs)
TrainArgsRejectedPathsOnly(a) ==
    a.load_data_path = None \/ a.save_model_path = None

\* lines 55-61: the argument verification.
TrainArgsRejected(a) ==
    a.load_data_path = None \/ a.save_model_path = None \/ a.num_epochs < 1

\* lines 27-61: a call with arguments from the set A.
TrainCall(A) ==
    /\ pc = "idle"
    /\ \E a \in A :
        /\ args' = a
        /\ IF TrainArgsRejected(a)
           THEN Raise("config")
           ELSE pc' = "train_load" /\ error' = None
    /\ effects' = <<>>
    /\ UNCHANGED <<diskVars, rng, trainVars, runVars, histVars>>

\* line 74: the data verification.
DatasetRejected(n) == n <= 0

\* lines 63-75: simulation.SimulationData(...) reads the CSV file and may
\* reject a number of GAN columns that is neither 0 nor gan_n; then the
\* engine rejects an empty table.
TrainLoad ==
    /\ pc = "train_load"
    /\ effects' = Append(effects, "load")
    /\ \E accepted \in IF csv_gan_cols \in {0, args.gan_n} THEN {TRUE} ELSE BOOLEAN :
        IF ~accepted THEN Raise("collaborator")
        ELSE IF DatasetRejected(csv_n) THEN Raise("config")
        ELSE pc' = "train_sizes" /\ error' = None
    /\ UNCHANGED <<diskVars, args, rng, trainVars, runVars, histVars>>

\* line 79: int(round(data.test_proportion * num_samples))
NumTestingSamples(n) == PyRound(test_proportion[1] * n, test_proportion[2])

\* line 107: the columns of all_data, cut from a table of csv_cols columns.
AllDataCols(csv_cols) == SliceCols(csv_cols, 0, num_sim_in_out_columns)

\* lines 77-109: sizes, numbers and lengths; the label and input columns.
TrainSizes ==
    /\ pc = "train_sizes"
    /\ LET n  == csv_n
           nt == NumTestingSamples(n)
           b  == ClampBatchSize(args.batch_size, n)
       IN  /\ num_samples' = n
           /\ num_testing_samples' = nt
           /\ num_training_samples' = n - nt
           /\ batch_size' = b
           /\ num_batches' = NumBatches(n, b)
           /\ final_batch_size' = FinalBatchSize(n, b)
           /\ num_training_batches' = NumBatches(n - nt, b)
           /\ final_training_batch_size' = FinalBatchSize(n - nt, b)
           /\ num_testing_batches' = NumBatches(nt, b)
           /\ final_testing_batch_size' = FinalBatchSize(nt, b)
           /\ all_data' = [i \in 1..n |-> i]
           /\ all_data_cols' = AllDataCols(num_sim_in_out_columns + csv_gan_cols)
    /\ pc' = "train_model"
    /\ UNCHANGED <<diskVars, error, effects, args, rng, runVars, histVars,
                   testing_data, training_data, testing_input, training_input,
                   loopVars, ganVars, mseVars, second_pass_labels, bufVars,
                   events>>

\* lines 111-146: standardization statistics and the model.
TrainModel ==
    /\ pc = "train_model"
    /\ effects' = Append(effects, "model")
    /\ pc' = "train_split"
    /\ UNCHANGED <<diskVars, error, args, rng, trainVars, runVars, histVars>>

\* (a split that is drawn without seeding first)
SplitGeneratorUnseeded(g) == g

\* line 153: the generator state the split's permutation is drawn in, given
\* the state g the generator was in before.
SplitGenerator(g) == manual_seed(testing_split_seed)

\* lines 166-167: the two partitions of the shuffled rows.
TestingRows(shuffled, nt) == Slice(shuffled, 0, nt)
\* (a training partition cut from the front)
TrainingRowsFromFront(shuffled, nt) == Slice(shuffled, 0, Len(shuffled) - nt)

TrainingRows(shuffled, nt) == Slice(shuffled, nt, Len(shuffled))

\* (a reseed that comes before the split's permutation)
SplitGeneratorCallsReseedFirst == <<"manual_seed", "reseed", "randperm">>

\* lines 153-164: what the split does with torch's generator, in order:
\* manual_seed(testing_split_seed), randperm, manual_seed(seed() & mask).
SplitGeneratorCalls == <<"manual_seed", "randperm", "reseed">>

\* lines 148-175: the seeded shuffle, the reseed and the two partitions.
TrainSplit ==
    /\ pc = "train_split"
    /\ LET g        == SplitGenerator(rng)
           shuffled == Index(all_data, randperm(g, Len(all_data)))
           testing  == TestingRows(shuffled, num_testing_samples)
           training == TrainingRows(shuffled, num_testing_samples)
       IN  /\ all_data' = shuffled
           /\ testing_data' = testing
           /\ training_data' = training
           /\ testing_input' = testing
           /\ training_input' = training
    /\ rng' \in RngStates
    /\ effects' = effects \o SplitGeneratorCalls
    /\ pc' = "train_check_gan"
    /\ UNCHANGED <<diskVars, error, args, sizeVars, all_data_cols, loopVars, ganVars,
                   runVars, histVars, mseVars, second_pass_labels, bufVars,
                   events>>

\* line 180: are fixed GAN generation parameters missing from a training
\* tensor of `cols` columns?
NoFixedGenParams(cols) == cols <= num_sim_in_out_columns

\* lines 177-189: the GAN generation columns of the training tensor.
TrainCheckGan ==
    /\ pc = "train_check_gan"
    /\ LET gan_n_columns_available == all_data_cols - num_sim_in_out_columns
       IN  IF args.gan_force_fixed_gen_params /\ NoFixedGenParams(all_data_cols)
           THEN Raise("no_gan_params")
           ELSE IF /\ args.gan_n >= 1
                   /\ gan_n_columns_available # args.gan_n
                   /\ gan_n_columns_available # 0
           THEN Raise("gan_count")
           ELSE /\ pc' = IF args.use_gan THEN "gan_epoch" ELSE "dense_epoch"
                /\ error' = None
    /\ UNCHANGED <<diskVars, effects, args, rng, trainVars, runVars, histVars>>

\* The call returns or its exception reaches the caller.
Return ==
    /\ pc \in {"raised", "done"}
    /\ pc' = "idle" /\ error' = None /\ effects' = <<>> /\ args' = NoArgs
    /\ ClearLocals
    /\ UNCHANGED <<diskVars, rng, histVars>>

\* The call returns or its exception reaches the caller; what it split and
\* what it saved is remembered for comparison with the next call.
ReturnRecorded ==
    /\ pc \in {"raised", "done"}
    /\ pc' = "idle" /\ error' = None /\ effects' = <<>> /\ args' = NoArgs
    /\ ClearLocals
    /\ prev_split' =
           IF args.call = "train" /\ "reseed" \in Range(effects)
           THEN <<[testing |-> Range(testing_data), training |-> Range(training_data)]>>
           ELSE prev_split
    /\ prev_run' =
           IF args.call = "run" /\ pc = "done"
           THEN <<[args |-> args, npoutput |-> npoutput, saved |-> saved,
                   messages |-> messages]>>
           ELSE prev_run
    /\ UNCHANGED <<diskVars, rng>>

(***************************************************************************)
(* train(): the regression (Dense) epochs, lines 195-492.                  *)
(***************************************************************************)
\* lines 269, 328, 643, 760: slice(batch * batch_size, (batch + 1) * batch_size)
BatchRows(rows, b, size) == Slice(rows, b * size, (b + 1) * size)

\* Where an epoch goes after its batch number b of `count` training batches.
AfterTrainBatch(b, count, train, test, end) ==
    IF b + 1 < count THEN train
    ELSE IF num_testing_batches > 0 THEN test ELSE end

AfterTestBatch(b, test, end) ==
    IF b + 1 < num_testing_batches THEN test ELSE end

\* What a batch did: the losses it propagated back and the optimizers it
\* stepped, in order, whether it took a pause decision and with what result,
\* and the trained-sample counters it left.
Event(e, phase, b, rows, decided, pd, pg, backward, steps, d_trained, g_trained) ==
    [epoch |-> e, phase |-> phase, batch |-> b, rows |-> rows,
     decided |-> decided, pause_discriminator |-> pd, pause_generator |-> pg,
     backward |-> backward, steps |-> steps,
     discriminator_trained |-> d_trained, generator_trained |-> g_trained]

\* (a testing phase that trains as well)
DenseStepsInEveryPhase(phase) == <<"optimizer">>

\* lines 287-288 and 297-342: optimizer.step() follows loss.backward() in a
\* training batch; a testing batch runs under torch.no_grad() without them.
DenseBackward(phase) == IF phase = "training" THEN <<"loss">> ELSE <<>>
DenseSteps(phase) == IF phase = "training" THEN <<"optimizer">> ELSE <<>>

\* A row of a per-epoch buffer: the epoch whose batch wrote it last, and how
\* often it was written since the buffer was cleared.
ClearedRow == [epoch |-> -1, writes |-> 0]

\* (a buffer that keeps its rows)
ClearBufferKeepsRows(buffer, n) ==
    IF Len(buffer) = n THEN buffer ELSE [i \in 1..n |-> ClearedRow]

\* lines 239-240, 603-612: torch.zeros(shape, out=buffer)
ClearBuffer(buffer, n) == [i \in 1..n |-> ClearedRow]

\* lines 283, 339, 729, 803: buffer[batch_slice] = ... in epoch e
WriteSlice(buffer, b, size, e) ==
    [i \in 1..Len(buffer) |->
        IF b * size < i /\ i <= (b + 1) * size
        THEN [epoch |-> e, writes |-> buffer[i].writes + 1]
        ELSE buffer[i]]

\* The values of the statistics are not computed here: a value stands for
\* where it comes from, a tensor of zeros or the mean over the error tensor
\* of a partition as it is at the end of an epoch.
Zero == <<"zero", 0>>
Mse(partition, e) == <<partition, e>>

\* lines 203-204: torch.zeros((num_epochs, num_sim_in_columns))
ZeroRows(n) == [e \in 1..n |-> Zero]

\* lines 198-243: before the first epoch, the MSE tensors; then the epoch's
\* shuffle; the error tensors are cleared.
DenseEpochBegin ==
    /\ pc = "dense_epoch"
    /\ current_epoch_training_errors' =
           ClearBuffer(current_epoch_training_errors, num_training_samples)
    /\ current_epoch_testing_errors' =
           ClearBuffer(current_epoch_testing_errors, num_testing_samples)
    /\ epoch_training_mse' = IF epoch = 0 THEN ZeroRows(args.num_epochs)
                             ELSE epoch_training_mse
    /\ epoch_testing_mse' = IF epoch = 0 THEN ZeroRows(args.num_epochs)
                            ELSE epoch_testing_mse
    /\ training_data' = Index(training_data, randperm(rng, Len(training_data)))
    /\ rng' = Advance(rng)
    /\ effects' = Append(effects, "randperm")
    /\ training_batch_lens' = <<>> /\ testing_batch_lens' = <<>>
    /\ batch' = 0 /\ batch_input' = <<>>
    /\ pc' = AfterTrainBatch(-1, num_training_batches,
                             "dense_train", "dense_test", "dense_epoch_end")
    /\ UNCHANGED <<diskVars, error, args, sizeVars, all_data, all_data_cols,
                   testing_data, testing_input, training_input, epoch, ganVars,
                   mse_output, stat_report, runVars, histVars, second_pass_labels,
                   events>>

\* lines 246-295: one training batch: forward pass, loss, backward pass and
\* optimizer step; after the last one, the epoch's training MSE.
DenseTrainBatch ==
    /\ pc = "dense_train"
    /\ events' = Append(events,
           Event(epoch, "training", batch,
                 Len(BatchRows(training_input, batch, batch_size)), FALSE,
                 FALSE, FALSE, DenseBackward("training"), DenseSteps("training"),
                 0, 0))
    /\ current_epoch_training_errors' =
           WriteSlice(current_epoch_training_errors, batch, batch_size, epoch)
    /\ UNCHANGED current_epoch_testing_errors
    /\ LET rows == BatchRows(training_input, batch, batch_size)
       IN  /\ batch_input' = rows
           /\ training_batch_lens' = Append(training_batch_lens, Len(rows))
    /\ pc' = AfterTrainBatch(batch, num_training_batches,
                             "dense_train", "dense_test", "dense_epoch_end")
    /\ batch' = IF batch + 1 < num_training_batches THEN batch + 1 ELSE 0
    /\ epoch_training_mse' =
           IF batch + 1 < num_training_batches THEN epoch_training_mse
           ELSE [epoch_training_mse EXCEPT ![epoch + 1] = Mse("training", epoch)]
    /\ UNCHANGED <<diskVars, error, effects, args, rng, sizeVars, dataVars, epoch,
                   testing_batch_lens, ganVars, epoch_testing_mse, mse_output,
                   stat_report,
                   runVars, histVars, second_pass_labels>>

\* lines 297-342: one testing batch, forward only.
DenseTestBatch ==
    /\ pc = "dense_test"
    /\ events' = Append(events,
           Event(epoch, "testing", batch,
                 Len(BatchRows(testing_input, batch, batch_size)), FALSE,
                 FALSE, FALSE, DenseBackward("testing"), DenseSteps("testing"),
                 0, 0))
    /\ current_epoch_testing_errors' =
           WriteSlice(current_epoch_testing_errors, batch, batch_size, epoch)
    /\ UNCHANGED current_epoch_training_errors
    /\ LET rows == BatchRows(testing_input, batch, batch_size)
       IN  /\ batch_input' = rows
           /\ testing_batch_lens' = Append(testing_batch_lens, Len(rows))
    /\ pc' = AfterTestBatch(batch, "dense_test", "dense_epoch_end")
    /\ batch' = IF batch + 1 < num_testing_batches THEN batch + 1 ELSE 0
    /\ UNCHANGED <<diskVars, error, effects, args, rng, sizeVars, dataVars, epoch,
                   training_batch_lens, ganVars, runVars, histVars, mseVars,
                   second_pass_labels>>

\* lines 344-363: the epoch's testing MSE; on to the next epoch.
DenseEpochEnd ==
    /\ pc = "dense_epoch_end"
    /\ epoch' = epoch + 1
    /\ pc' = IF epoch + 1 < args.num_epochs THEN "dense_epoch" ELSE "dense_stats"
    /\ epoch_testing_mse' =
           [epoch_testing_mse EXCEPT ![epoch + 1] = Mse("testing", epoch)]
    /\ UNCHANGED <<diskVars, error, effects, args, rng, sizeVars, dataVars, batch,
                   batch_input, training_batch_lens, testing_batch_lens, ganVars,
                   epoch_training_mse, mse_output, stat_report, runVars, histVars,
                   second_pass_labels, bufVars, events>>

\* line 456: the column names of the MSE table.
MseColumns ==
    <<"is_training">> \o [j \in 1..num_sim_in_columns |-> <<"mse", <<"label", j>>>>]

\* (a table with the training block first)
MseRowsTrainingFirst(training, testing) ==
    [e \in 1..Len(training) |-> <<1, training[e]>>]
    \o [e \in 1..Len(testing) |-> <<0, testing[e]>>]

\* lines 460-481: the testing MSEs with a column of zeros in front, then the
\* training MSEs with a column of ones in front.
MseRows(training, testing) ==
    [e \in 1..Len(testing) |-> <<0, testing[e]>>]
    \o [e \in 1..Len(training) |-> <<1, training[e]>>]

\* lines 394-412: stat_fmts, the lines of the report by kind: the empty
\* lines, the line with the vector of the label names, and the lines with a
\* vector of numbers, its norm and its mean.
stat_fmts == [blank |-> 4, lvec |-> 1, tvec |-> 12]

\* The length of "{0:,f}".format(x) for the shortest x, "0.000000".
ShortLen == 8

\* The length of every label name.
sim_input_name_len == 2

\* The lengths the texts of a "tvec" line's values have before any padding:
\* num_sim_inputs components, then the norm and the mean.
TvecLens(first_len) ==
    <<first_len>> \o [c \in 1..(num_sim_in_columns + 1) |-> ShortLen]

\* The lines of the report, those of one length taken together, when
\* `long` of the "tvec" lines hold one number of long_len characters and
\* every other number is of ShortLen characters.
ReportLines(long, long_len) ==
    <<[kind |-> "blank", value_lens |-> <<>>, count |-> stat_fmts.blank],
      [kind |-> "lvec",
       value_lens |-> [c \in 1..num_sim_in_columns |-> sim_input_name_len],
       count |-> stat_fmts.lvec],
      [kind |-> "tvec", value_lens |-> TvecLens(long_len), count |-> long],
      [kind |-> "tvec", value_lens |-> TvecLens(ShortLen),
       count |-> stat_fmts.tvec - long]>>

\* The length of a value formatted with a minimum width.
FieldLen(value_len, float_str_min_len) == Max(value_len, float_str_min_len)

\* The length of "<a, b, ...>" for fields of the given lengths.
VectorLen(field_lens) == 2 + 2 * (Len(field_lens) - 1) + Sum(field_lens)

\* The length of the text before the vector, "... (norm) (mean) : ".
StatPrefixLen == 35

\* lines 375-392: the length of the line stat_format returns.
stat_format(kind, value_lens, float_str_min_len) ==
    LET fields == [c \in 1..Len(value_lens) |->
                      FieldLen(value_lens[c], float_str_min_len)]
    IN  IF kind = "tvec"
        THEN StatPrefixLen + VectorLen(SubSeq(fields, 1, num_sim_in_columns))
             + 2 + fields[num_sim_in_columns + 1]
             + 3 + fields[num_sim_in_columns + 2] + 1
        ELSE IF kind = "lvec"
        THEN StatPrefixLen + VectorLen(fields)
        ELSE 0

\* lines 414-419: the lengths of the report's lines at a width, and how many
\* lines have each.
stat_fmt_lines(report, float_str_min_len) ==
    [g \in 1..Len(report) |->
        [len |-> stat_format(report[g].kind, report[g].value_lens,
                             float_str_min_len),
         count |-> report[g].count]]

\* line 445
MaxLineLen(lines) ==
    LET lens == {lines[g].len : g \in {h \in 1..Len(lines) : lines[h].count > 0}}
    IN  CHOOSE m \in lens : \A l \in lens : l <= m

\* line 446
MaxLineLenCount(lines) ==
    LET max_line_len == MaxLineLen(lines)
    IN  Sum([g \in 1..Len(lines) |->
                IF lines[g].len >= max_line_len THEN lines[g].count ELSE 0])

\* cols and last_max_line_len_count when they are None.
NoColumns == -1
NoCount == -1

\* lines 443-451: the loop from try_float_str_min_len down to 0, with
\* last_max_line_len_count = last and float_str_min_len = current on entry.
RECURSIVE WidthSearch(_, _, _, _, _)
WidthSearch(report, cols, try_float_str_min_len, last, current) ==
    IF try_float_str_min_len < 0 THEN current
    ELSE LET lines == stat_fmt_lines(report, try_float_str_min_len)
             max_line_len_count == MaxLineLenCount(lines)
         IN  IF /\ cols = NoColumns \/ max_line_len_count <= cols
                /\ last # NoCount /\ max_line_len_count < last
             THEN current
             ELSE WidthSearch(report, cols, try_float_str_min_len - 1,
                              max_line_len_count, try_float_str_min_len)

\* lines 430, 435-439: the width the search starts at.
StartWidth(cols) == IF cols # NoColumns THEN 30 ELSE 13

\* lines 430-451: float_str_min_len, given data.auto_size_formatting, the
\* columns of shutil.get_terminal_size((1, 1)) and the report's lines.
FloatStrMinLen(auto_size_formatting, columns, report) ==
    IF ~auto_size_formatting THEN 13
    ELSE LET cols == IF columns > 1 THEN columns ELSE NoColumns
         IN  WidthSearch(report, cols, StartWidth(cols), NoCount,
                         StartWidth(cols))

\* The terminals the report is printed on: of unknown width (the fallback,
\* 1 column) and 2 and 80 columns wide.
TerminalColumns == {1, 2, 80}

\* How many lines hold a long number, and how long it is.
LongLineCounts == {0, 1}
LongLens == {MaxNumberLen}

\* lines 365-492: the statistics report and the MSE table.
DenseStats ==
    /\ pc = "dense_stats"
    /\ \E auto_size_formatting \in BOOLEAN, columns \in TerminalColumns,
          long \in LongLineCounts, long_len \in LongLens :
          stat_report' =
              <<[auto_size_formatting |-> auto_size_formatting,
                 columns |-> IF auto_size_formatting THEN columns ELSE 1,
                 lines |-> ReportLines(long, long_len),
                 float_str_min_len |->
                     FloatStrMinLen(auto_size_formatting, columns,
                                    ReportLines(long, long_len))]>>
    /\ effects' = IF args.save_data_path # None
                  THEN Append(effects, "save_data") ELSE effects
    /\ mse_output' =
           IF args.save_data_path # None
           THEN <<[columns |-> MseColumns,
                   rows |-> MseRows(epoch_training_mse, epoch_testing_mse)]>>
           ELSE mse_output
    /\ pc' = "train_save"
    /\ UNCHANGED <<diskVars, error, args, rng, sizeVars, dataVars, loopVars,
                   ganVars, epoch_training_mse, epoch_testing_mse,
                   runVars, histVars, second_pass_labels, bufVars, events>>

\* lines 880-888: the trained model is saved.
TrainSave ==
    /\ pc = "train_save"
    /\ effects' = Append(effects, "save_model")
    /\ pc' = "done"
    /\ UNCHANGED <<diskVars, error, args, rng, trainVars, runVars, histVars>>

(***************************************************************************)
(* train(): the adversarial (GAN) epochs, lines 493-878.                   *)
(***************************************************************************)
\* (a decision without the pause_max_epochs rule)
PauseRuleNoMaxEpochs(ps, ep, trained) ==
    IF ~ps.gan_enable_pause THEN 1
    ELSE IF ep < ps.pause_min_epochs THEN 2
    ELSE IF trained < ps.pause_min_samples_per_epoch THEN 4
    ELSE 5

\* (a decision without the pause_min_samples_per_epoch rule)
PauseRuleNoMinSamples(ps, ep, trained) ==
    IF ~ps.gan_enable_pause THEN 1
    ELSE IF ep < ps.pause_min_epochs THEN 2
    ELSE IF ps.pause_max_epochs > 0 /\ ep > ps.pause_max_epochs THEN 3
    ELSE 5

\* lines 691-706: which branch decides the pauses of a batch of epoch ep
\* that begins with the discriminator trained on `trained` samples.
PauseRule(ps, ep, trained) ==
    IF ~ps.gan_enable_pause THEN 1
    ELSE IF ep < ps.pause_min_epochs THEN 2
    ELSE IF ps.pause_max_epochs > 0 /\ ep > ps.pause_max_epochs THEN 3
    ELSE IF trained < ps.pause_min_samples_per_epoch THEN 4
    ELSE 5

\* lines 707-708, with discriminator_loss = dx2 / 2.
PauseDiscriminator(rule, dx2, g, threshold) ==
    rule = 5 /\ dx2 <= 2 * (g - threshold)

\* (a strict comparison)
PauseGeneratorStrict(rule, dx2, g, threshold) ==
    rule = 5 /\ 2 * g < dx2 - 2 * threshold

PauseGenerator(rule, dx2, g, threshold) ==
    rule = 5 /\ 2 * g <= dx2 - 2 * threshold

\* lines 652-658, 769-775: the latent parameters of a batch: the batch's rows
\* of the partition's GAN columns, or fresh uniform samples.
GenParams(force, gan_rows, gan_cols, rows, b, size, gan_n) ==
    IF force
    THEN [fixed |-> TRUE, cols |-> gan_cols, rows |-> BatchRows(gan_rows, b, size)]
    ELSE [fixed |-> FALSE, cols |-> gan_n, rows |-> <<>>]

\* lines 171, 175: the width of the partitions' GAN columns.
GanCols(cols) == SliceCols(cols, num_sim_in_out_columns, cols)

\* lines 584-617: the epoch's shuffle; counters and loss tensors are cleared.
GanEpochBegin ==
    /\ pc = "gan_epoch"
    /\ current_epoch_training_errors' =
           ClearBuffer(current_epoch_training_errors, num_training_samples)
    /\ current_epoch_testing_errors' =
           ClearBuffer(current_epoch_testing_errors, num_testing_samples)
    /\ training_data' = Index(training_data, randperm(rng, Len(training_data)))
    /\ rng' = Advance(rng)
    /\ effects' = Append(effects, "randperm")
    /\ current_epoch_num_generator_training_samples' = 0
    /\ current_epoch_num_discriminator_training_samples' = 0
    /\ training_batch_lens' = <<>> /\ testing_batch_lens' = <<>>
    /\ batch' = 0 /\ batch_input' = <<>>
    /\ pc' = AfterTrainBatch(-1, num_training_batches,
                             "gan_train", "gan_test", "gan_epoch_end")
    /\ UNCHANGED <<diskVars, error, args, sizeVars, all_data, all_data_cols,
                   testing_data, testing_input, training_input, epoch,
                   gan_gen_params, discriminator_loss_x2, generator_loss,
                   pause_rule, pause_discriminator, pause_generator,
                   samples_at_batch_start, epoch_losses, runVars, histVars,
                   mseVars, second_pass_labels, events>>

\* lines 712-729: the backward passes and optimizer steps of a training
\* batch, for the sides that are not paused.
GanBackward(pd, pg) ==
    (IF pd THEN <<>>
     ELSE <<"discriminator_real_loss", "discriminator_generated_loss">>)
    \o (IF pg THEN <<>> ELSE <<"generator_loss">>)

GanSteps(pd, pg) ==
    (IF pd THEN <<>> ELSE <<"discriminator", "discriminator">>)
    \o (IF pg THEN <<>> ELSE <<"generator">>)

\* (a counter that counts every batch)
TrainedAlways(counter, paused, rows) == counter + rows

\* lines 713, 726: current_epoch_num_..._training_samples += len(batch_input)
Trained(counter, paused, rows) == IF paused THEN counter ELSE counter + rows

\* What the discriminator answers for a batch, probability_real as one of
\* three levels: low, middle, high.  The networks are not part of this file;
\* every answer is possible for every argument.
DiscriminatorOutputs == {0, 1, 2}

\* nn.BCELoss() and .mean(), lines 660-689, on these levels: the loss of an
\* answer against the "real" target falls with the answer, the loss against
\* the "generated" target grows with it.
BceLoss(answer, target) == IF target = "real" THEN 2 - answer ELSE answer

\* The tensors a batch hands to the discriminator as labels.
BatchLabels(rows) == <<"batch_labels", rows>>
GeneratorOutput(rows, params) == <<"generator_output", rows, params>>

\* lines 678, 795: the label argument of the discriminator's second pass.
SecondPassLabels(batch_labels, generator_output) == batch_labels

\* lines 620-735: one training batch: latent parameters, the three losses,
\* the pause decision, and the optimizer steps of the sides not paused.
GanTrainBatch ==
    /\ pc = "gan_train"
    /\ current_epoch_training_errors' =
           WriteSlice(current_epoch_training_errors, batch, batch_size, epoch)
    /\ UNCHANGED current_epoch_testing_errors
    /\ \E discriminator_real_output \in DiscriminatorOutputs,
          discriminator_generated_output \in DiscriminatorOutputs :
        LET rows   == BatchRows(training_input, batch, batch_size)
            d_real == BceLoss(discriminator_real_output, "real")
            d_generated == BceLoss(discriminator_generated_output, "generated")
            g      == BceLoss(discriminator_generated_output, "real")
            params == GenParams(args.gan_force_fixed_gen_params, training_input,
                                GanCols(all_data_cols), rows, batch, batch_size,
                                args.gan_n)
            dx2    == d_real + d_generated
            rule   == PauseRule(args.pause, epoch,
                                current_epoch_num_discriminator_training_samples)
            pd     == PauseDiscriminator(rule, dx2, g,
                                         args.pause.gan_training_pause_threshold)
            pg     == PauseGenerator(rule, dx2, g,
                                     args.pause.gan_training_pause_threshold)
        IN  /\ batch_input' = rows
            /\ training_batch_lens' = Append(training_batch_lens, Len(rows))
            /\ gan_gen_params' = params
            /\ second_pass_labels' =
                   SecondPassLabels(BatchLabels(rows), GeneratorOutput(rows, params))
            /\ rng' = IF params.fixed THEN rng ELSE Advance(rng)
            /\ effects' = IF params.fixed THEN effects ELSE Append(effects, "rand")
            /\ discriminator_loss_x2' = dx2
            /\ generator_loss' = g
            /\ pause_rule' = rule
            /\ pause_discriminator' = pd
            /\ pause_generator' = pg
            /\ samples_at_batch_start' =
                   current_epoch_num_discriminator_training_samples
            /\ current_epoch_num_discriminator_training_samples' =
                   Trained(current_epoch_num_discriminator_training_samples, pd,
                           Len(rows))
            /\ current_epoch_num_generator_training_samples' =
                   Trained(current_epoch_num_generator_training_samples, pg,
                           Len(rows))
            /\ events' = Append(events,
                   Event(epoch, "training", batch, Len(rows), TRUE, pd, pg,
                         GanBackward(pd, pg), GanSteps(pd, pg),
                         Trained(current_epoch_num_discriminator_training_samples,
                                 pd, Len(rows)),
                         Trained(current_epoch_num_generator_training_samples,
                                 pg, Len(rows))))
    /\ pc' = AfterTrainBatch(batch, num_training_batches,
                             "gan_train", "gan_test", "gan_epoch_end")
    /\ batch' = IF batch + 1 < num_training_batches THEN batch + 1 ELSE 0
    /\ UNCHANGED <<diskVars, error, args, sizeVars, dataVars, epoch,
                   testing_batch_lens, epoch_losses, runVars, histVars,
                   mseVars>>

\* lines 737-807: one testing batch: the same forward passes, nothing else.
GanTestBatch ==
    /\ pc = "gan_test"
    /\ current_epoch_testing_errors' =
           WriteSlice(current_epoch_testing_errors, batch, batch_size, epoch)
    /\ UNCHANGED current_epoch_training_errors
    /\ LET rows   == BatchRows(testing_input, batch, batch_size)
           params == GenParams(args.gan_force_fixed_gen_params, testing_input,
                               GanCols(all_data_cols), rows, batch, batch_size,
                               args.gan_n)
       IN  /\ batch_input' = rows
           /\ testing_batch_lens' = Append(testing_batch_lens, Len(rows))
           /\ gan_gen_params' = params
           /\ second_pass_labels' =
                  SecondPassLabels(BatchLabels(rows), GeneratorOutput(rows, params))
           /\ events' = Append(events,
                  Event(epoch, "testing", batch, Len(rows), FALSE,
                        pause_discriminator, pause_generator, <<>>, <<>>,
                        current_epoch_num_discriminator_training_samples,
                        current_epoch_num_generator_training_samples))
           /\ rng' = IF params.fixed THEN rng ELSE Advance(rng)
           /\ effects' = IF params.fixed THEN effects ELSE Append(effects, "rand")
    /\ pc' = AfterTestBatch(batch, "gan_test", "gan_epoch_end")
    /\ batch' = IF batch + 1 < num_testing_batches THEN batch + 1 ELSE 0
    /\ UNCHANGED <<diskVars, error, args, sizeVars, dataVars, epoch,
                   training_batch_lens,
                   current_epoch_num_generator_training_samples,
                   current_epoch_num_discriminator_training_samples,
                   discriminator_loss_x2, generator_loss,
                   pause_rule, pause_discriminator, pause_generator,
                   samples_at_batch_start, epoch_losses, runVars, histVars,
                   mseVars>>

\* lines 830-837: columns 6, 7 and 8 of the epoch's row of epoch_losses.
EpochLossesRow(training, discriminator_trained, generator_trained) ==
    [num_training_samples |-> training,
     num_discriminator_training_paused |-> training - discriminator_trained,
     num_generator_training_paused |-> training - generator_trained]

\* lines 809-856: the epoch's row of epoch_losses; on to the next epoch.
GanEpochEnd ==
    /\ pc = "gan_epoch_end"
    /\ epoch_losses' = Append(epoch_losses,
           EpochLossesRow(num_training_samples,
                          current_epoch_num_discriminator_training_samples,
                          current_epoch_num_generator_training_samples))
    /\ epoch' = epoch + 1
    /\ pc' = IF epoch + 1 < args.num_epochs THEN "gan_epoch" ELSE "gan_export"
    /\ UNCHANGED <<diskVars, error, effects, args, rng, sizeVars, dataVars, batch,
                   batch_input, training_batch_lens, testing_batch_lens,
                   gan_gen_params,
                   current_epoch_num_generator_training_samples,
                   current_epoch_num_discriminator_training_samples,
                   discriminator_loss_x2, generator_loss,
                   pause_rule, pause_discriminator, pause_generator,
                   samples_at_batch_start, runVars, histVars, mseVars,
                   second_pass_labels, bufVars, events>>

\* lines 858-878: the BCE table.
GanExport ==
    /\ pc = "gan_export"
    /\ effects' = IF args.save_data_path # None
                  THEN Append(effects, "save_data") ELSE effects
    /\ pc' = "train_save"
    /\ UNCHANGED <<diskVars, error, args, rng, trainVars, runVars, histVars>>

(***************************************************************************)
(* run(), lines 890-1145.                                                  *)
(***************************************************************************)
RunArgRecords(UseGan, LoadModel, LoadData, SaveData, GanN, Keep) ==
    {[call |-> "run", use_gan |-> u, load_model_path |-> lm,
      load_data_path |-> ld, save_data_path |-> sd, gan_n |-> gn,
      output_keep_out_of_bounds_samples |-> k] :
        u \in UseGan, lm \in LoadModel, ld \in LoadData,
        sd \in SaveData, gn \in GanN, k \in Keep}

\* lines 906-912: the argument verification.
RunArgsRejected(a) ==
    a.load_data_path = None \/ a.save_data_path = None \/ a.load_model_path = None

\* lines 890-912: a call with arguments from the set A.
RunCall(A) ==
    /\ pc = "idle"
    /\ \E a \in A :
        /\ args' = a
        /\ IF RunArgsRejected(a)
           THEN Raise("config")
           ELSE pc' = "run_load" /\ error' = None
    /\ effects' = <<>>
    /\ UNCHANGED <<diskVars, rng, trainVars, runVars, histVars>>

\* lines 914-926: the CSV file is read; an empty table is rejected.
RunLoad ==
    /\ pc = "run_load"
    /\ effects' = Append(effects, "load")
    /\ \E accepted \in IF csv_gan_cols \in {0, args.gan_n} THEN {TRUE} ELSE BOOLEAN :
        IF ~accepted THEN Raise("collaborator")
        ELSE IF DatasetRejected(csv_n) THEN Raise("config")
        ELSE pc' = "run_model" /\ error' = None
    /\ UNCHANGED <<diskVars, args, rng, trainVars, runVars, histVars>>

\* lines 928-936: the model is loaded.
RunModel ==
    /\ pc = "run_model"
    /\ effects' = Append(effects, "model")
    /\ pc' = "run_forward"
    /\ UNCHANGED <<diskVars, error, args, rng, trainVars, runVars, histVars>>

\* (a network left in training mode, whose dropout draws from the random
\* source)
DenseWithDropout(w, x) == [j \in 1..num_sim_in_columns |-> w[j] * x + rng]

\* The networks: what a model file with weights w predicts for an input x,
\* and for an input x with latent parameters z.
Dense(w, x) == [j \in 1..num_sim_in_columns |-> w[j] * x]

Generator(w, x, z) ==
    [j \in 1..num_sim_in_columns |-> w[j] * x + z[((j - 1) % Len(z)) + 1]]

\* torch.rand((n, gan_n)) drawn in generator state g: every value is 0 or 1,
\* which stand for two numbers of [0, 1).
rand(g, n, gan_n) == [i \in 1..n |-> [c \in 1..gan_n |-> (g + i + c) % 2]]

\* line 954: are the latent parameters those of the CSV file?
GanFixedGen(all_gan_n_cols) == all_gan_n_cols # 0

\* lines 938-971: the tensors, the GAN column check and the forward pass.
RunForward ==
    /\ pc = "run_forward"
    /\ LET cols          == AllDataCols(num_sim_in_out_columns + csv_gan_cols)
           all_gan_n     == GanCols(cols)
           gan_fixed_gen == GanFixedGen(all_gan_n)
           params        == rand(rng, csv_n, args.gan_n)
       IN  /\ all_data_cols' = cols
           /\ IF all_gan_n # args.gan_n /\ all_gan_n # 0
              THEN /\ Raise("gan_count")
                   /\ UNCHANGED <<rng, effects, npoutput, run_gan_gen_params>>
              ELSE IF ~args.use_gan
              THEN /\ npoutput' = [i \in 1..csv_n |-> Dense(model_w, csv_input[i])]
                   /\ effects' = Append(effects, "forward")
                   /\ pc' = "run_table" /\ error' = None
                   /\ UNCHANGED <<rng, run_gan_gen_params>>
              ELSE IF gan_fixed_gen
              THEN \* line 963: the name data_gan_n is not defined anywhere
                   /\ Raise("NameError")
                   /\ UNCHANGED <<rng, effects, npoutput, run_gan_gen_params>>
              ELSE /\ run_gan_gen_params' = <<params>>
                   /\ rng' = Advance(rng)
                   /\ npoutput' = [i \in 1..csv_n |->
                                      Generator(model_w, csv_input[i], params[i])]
                   /\ effects' = effects \o <<"rand", "forward">>
                   /\ pc' = "run_table" /\ error' = None
    /\ UNCHANGED <<diskVars, args, sizeVars, all_data,
                   testing_data, training_data, testing_input, training_input,
                   loopVars, ganVars, output_columns, output, messages, saved,
                   histVars, mseVars, second_pass_labels, bufVars, events>>

\* line 974: the column names of the CSV file.
InputColumns ==
    [j \in 1..num_sim_in_columns |-> <<"label", j>>]
    \o [j \in 1..num_sim_outputs |-> <<"input", j>>]
    \o [c \in 1..csv_gan_cols |-> <<"csv_gan", c>>]

\* lines 976-979, 992-997: the column names of the output table.
OutputColumns(use_gan, gan_fixed_gen, gan_n) ==
    SubSeq(InputColumns, 1, num_sim_in_out_columns)
    \o [j \in 1..num_sim_in_columns |-> <<"pred", InputColumns[j]>>]
    \o SubSeq(InputColumns, num_sim_in_out_columns + 1, Len(InputColumns))
    \o (IF use_gan /\ ~gan_fixed_gen
        THEN [c \in 1..gan_n |-> <<"GAN", c - 1>>] ELSE <<>>)

\* lines 982-990: the number of columns of expanded_npoutput.
ExpandedCols(gan_fixed_gen, params, gan_n) ==
    num_sim_in_out_columns + num_sim_in_columns
    + (IF gan_fixed_gen \/ params = <<>> THEN csv_gan_cols ELSE gan_n)

\* The value of the CSV file's GAN column c in row i.
CsvGan(i, c) == (i + c) % 2

\* (latent values attached to the rows in reverse)
ExpandedGanCellsReversed(gan_fixed_gen, params, i) ==
    IF gan_fixed_gen \/ params = <<>>
    THEN [c \in 1..csv_gan_cols |-> CsvGan(i, c)]
    ELSE params[1][Len(params[1]) + 1 - i]

\* line 986: the cells of row i of expanded_npoutput after the predictions.
ExpandedGanCells(gan_fixed_gen, params, i) ==
    IF gan_fixed_gen \/ params = <<>>
    THEN [c \in 1..csv_gan_cols |-> CsvGan(i, c)]
    ELSE params[1][i]

\* lines 973-1002: the output table; pandas rejects a table whose data and
\* column names differ in number.
RunTable ==
    /\ pc = "run_table"
    /\ LET gan_fixed_gen == GanFixedGen(GanCols(all_data_cols))
           columns       == OutputColumns(args.use_gan, gan_fixed_gen, args.gan_n)
       IN  IF Len(columns) # ExpandedCols(gan_fixed_gen, run_gan_gen_params, args.gan_n)
           THEN Raise("ValueError") /\ UNCHANGED <<output_columns, output>>
           ELSE /\ output_columns' = columns
                /\ output' = [i \in 1..csv_n |-> i]
                /\ pc' = "run_filter" /\ error' = None
    /\ UNCHANGED <<diskVars, effects, args, rng, trainVars, npoutput,
                   run_gan_gen_params, messages, saved, histVars>>

\* (bounds that are not included)
RowValidStrict(prediction) ==
    \A j \in 1..num_sim_in_columns :
        prediction[j] > sim_input_mins[j] /\ prediction[j] < sim_input_maxs[j]

\* lines 1012-1016: is every predicted column of the row within its bounds?
RowValid(prediction) ==
    \A j \in 1..num_sim_in_columns :
        prediction[j] >= sim_input_mins[j] /\ prediction[j] <= sim_input_maxs[j]

\* output.iloc[mask]: the rows the mask selects, in their order.
RECURSIVE Select(_, _)
Select(rows, mask) ==
    IF rows = <<>> THEN <<>>
    ELSE (IF mask[1] THEN <<rows[1]>> ELSE <<>>) \o Select(Tail(rows), Tail(mask))

\* line 1028: "#{0:,d}/#{0:,d} sample rows have been discarded" formatted
\* with (num_lost_samples, old_num_samples).
DiscardedMessage(num_lost_samples, old_num_samples) ==
    [kind |-> "discarded", discarded |-> num_lost_samples, of |-> num_lost_samples]

\* lines 1004-1029: the boundary check.
RunFilter ==
    /\ pc = "run_filter"
    /\ IF ~args.output_keep_out_of_bounds_samples
       THEN LET mask == [i \in 1..Len(npoutput) |-> RowValid(npoutput[i])]
                kept == Select(output, mask)
                num_lost_samples == Len(output) - Len(kept)
            IN  /\ output' = kept
                /\ messages' = Append(messages,
                       IF num_lost_samples <= 0 THEN [kind |-> "all_within"]
                       ELSE DiscardedMessage(num_lost_samples, Len(output)))
       ELSE UNCHANGED <<output, messages>>
    /\ pc' = "run_diagnostics"
    /\ UNCHANGED <<diskVars, error, effects, args, rng, trainVars, npoutput,
                   run_gan_gen_params, output_columns, saved, histVars>>

Column(table, j) == [i \in 1..Len(table) |-> table[i][j]]

\* n * n * np.std(col) ** 2 for a column of n values.
StdSquaredTimesN2(col) ==
    Len(col) * Sum([i \in 1..Len(col) |-> col[i] * col[i]]) - Sum(col) * Sum(col)

\* (a first comparison that is strict: std < 0.0)
StdWarningStrict(col, j) ==
    LET n == Len(col)
        r == sim_input_maxs[j] - sim_input_mins[j]
    IN  IF StdSquaredTimesN2(col) < 0
        THEN <<[kind |-> "all_the_same", column |-> j, prediction |-> col[1]]>>
        ELSE IF r >= 0 /\ 100 * StdSquaredTimesN2(col) <= n * n * r * r
        THEN <<[kind |-> "little_variance", column |-> j]>>
        ELSE <<>>

\* lines 1053-1060: the variance warning of one predicted column, if any:
\* std <= 0.0, or else std <= 0.1 * (max - min).
StdWarning(col, j) ==
    LET n == Len(col)
        r == sim_input_maxs[j] - sim_input_mins[j]
    IN  IF StdSquaredTimesN2(col) <= 0
        THEN <<[kind |-> "all_the_same", column |-> j, prediction |-> col[1]]>>
        ELSE IF r >= 0 /\ 100 * StdSquaredTimesN2(col) <= n * n * r * r
        THEN <<[kind |-> "little_variance", column |-> j]>>
        ELSE <<>>

unique_warn_threshold == 25

\* lines 1062-1111: the warning about few unique values, if any.
UniqueWarning(col, j) ==
    IF Cardinality(Range(col)) <= unique_warn_threshold
    THEN <<[kind |-> "few_unique", column |-> j, unique |-> Range(col)]>>
    ELSE <<>>

RECURSIVE Diagnostics(_, _)
Diagnostics(table, j) ==
    IF j > num_sim_in_columns THEN <<>>
    ELSE StdWarning(Column(table, j), j) \o UniqueWarning(Column(table, j), j)
         \o Diagnostics(table, j + 1)

\* lines 1031-1113: the diagnostics of the predictions, column by column.
RunDiagnostics ==
    /\ pc = "run_diagnostics"
    /\ messages' = IF Len(npoutput) >= 2
                   THEN messages \o Diagnostics(npoutput, 1) ELSE messages
    /\ pc' = "run_save"
    /\ UNCHANGED <<diskVars, error, effects, args, rng, trainVars, npoutput,
                   run_gan_gen_params, output_columns, output, saved, histVars>>

\* lines 1115-1145: the MSE report; the table is saved.
RunSave ==
    /\ pc = "run_save"
    /\ effects' = effects \o <<"mse_report", "save_data">>
    /\ saved' = <<[columns |-> output_columns, rows |-> output,
                    gan |-> [k \in 1..Len(output) |->
                                ExpandedGanCells(GanFixedGen(GanCols(all_data_cols)),
                                                 run_gan_gen_params, output[k])]]>>
    /\ pc' = "done"
    /\ UNCHANGED <<diskVars, error, args, rng, trainVars, npoutput,
                   run_gan_gen_params, output_columns, output, messages, histVars>>

RunSteps ==
    \/ RunLoad \/ RunModel \/ RunForward \/ RunTable \/ RunFilter
    \/ RunDiagnostics \/ RunSave

(***************************************************************************)
(* Specifications.                                                         *)
(***************************************************************************)
\* Regression training with every batch size.
DenseArgs ==
    TrainArgRecords({FALSE}, {Path}, {Path}, Paths, {1}, 1..MaxEpochs,
                    BatchSizeArgs, {FALSE}, {NoPause})

TrainCommonSteps ==
    \/ TrainLoad \/ TrainSizes \/ TrainModel \/ TrainSplit \/ TrainCheckGan
    \/ TrainSave

TrainCommon == TrainCommonSteps \/ Return

DenseEpochs ==
    \/ DenseEpochBegin \/ DenseTrainBatch \/ DenseTestBatch \/ DenseEpochEnd
    \/ DenseStats

GanEpochs ==
    \/ GanEpochBegin \/ GanTrainBatch \/ GanTestBatch \/ GanEpochEnd
    \/ GanExport

TrainInit == Start(0..MaxSamples, 0..MaxGanN, TestProportions, {<<0, 0>>})

DenseNext == TrainCall(DenseArgs) \/ TrainCommon \/ DenseEpochs

SpecDense == TrainInit /\ [][DenseNext]_vars

\* Adversarial training with every combination of the pause arguments.
GanArgs ==
    TrainArgRecords({TRUE}, {Path}, {Path}, {Path}, {1}, {1, 3},
                    {0, 2}, {FALSE}, PauseArgs)

GanInit == Start(1..MaxSamples, {0}, {<<1, 4>>}, {<<0, 0>>})

GanNext == TrainCall(GanArgs) \/ TrainCommon \/ GanEpochs

SpecGan == GanInit /\ [][GanNext]_vars

\* Inference with every model file.
RunArgs == RunArgRecords(BOOLEAN, {Path}, {Path}, {Path}, GanNArgs, BOOLEAN)

RunInit == Start(0..MaxSamples, 0..MaxGanN, {<<1, 4>>}, Weights)

RunNext == RunCall(RunArgs) \/ RunSteps \/ Return

SpecRun == RunInit /\ [][RunNext]_vars

\* A process that calls train() and run() in any order, with and without
\* the required arguments.
TrainArgs ==
    TrainArgRecords(BOOLEAN, Paths, Paths, {Path}, GanNArgs, {0, 2},
                    {0, 2}, BOOLEAN, {NoPause})

SomeRunArgs == RunArgRecords(BOOLEAN, Paths, Paths, Paths, {1}, BOOLEAN)

Init == Start(0..MaxSamples, 0..MaxGanN, {<<1, 4>>}, {<<1, 1>>})

Next ==
    \/ TrainCall(TrainArgs) \/ TrainCommonSteps \/ DenseEpochs \/ GanEpochs
    \/ RunCall(SomeRunArgs) \/ RunSteps
    \/ ReturnRecorded

Spec == Init /\ [][Next]_vars

(***************************************************************************)
(* Claims.                                                                 *)
(***************************************************************************)
\* q = ceil(n / b) for b >= 1.
IsCeilDiv(q, n, b) == q * b >= n /\ (q - 1) * b < n

\* The batch sizes a plan announces: b for every batch but the last.
PlannedSizes(count, b, final) == [i \in 1..count |-> IF i < count THEN b ELSE final]

PlanCovers(count, b, final, n) ==
    /\ IsCeilDiv(count, n, b)
    /\ Sum(PlannedSizes(count, b, final)) = n

\* C1: once train has computed its sizes for N >= 1 rows, batch_size is the
\* requested one clamped to N, num_batches = ceil(N / batch_size) and the
\* planned batch sizes sum to N; the same holds for the training and the
\* testing partition with their own counts (0 rows: 0 batches); and the
\* batches an epoch actually cuts have exactly the planned sizes.
C1_BatchPlan ==
    num_samples >= 1 =>
        /\ batch_size = IF args.batch_size <= 0 \/ args.batch_size > num_samples
                        THEN num_samples ELSE args.batch_size
        /\ PlanCovers(num_batches, batch_size, final_batch_size, num_samples)
        /\ PlanCovers(num_training_batches, batch_size, final_training_batch_size,
                      num_training_samples)
        /\ PlanCovers(num_testing_batches, batch_size, final_testing_batch_size,
                      num_testing_samples)
        /\ (num_testing_samples = 0 => num_testing_batches = 0)
        /\ (pc \in {"dense_epoch_end", "gan_epoch_end"} =>
               /\ training_batch_lens =
                      PlannedSizes(num_training_batches, batch_size,
                                   final_training_batch_size)
               /\ testing_batch_lens =
                      PlannedSizes(num_testing_batches, batch_size,
                                   final_testing_batch_size))

\* An epoch has cut two or more training batches, the last one short, and a
\* testing batch.
C1_Witness ==
    /\ pc = "dense_epoch_end"
    /\ num_training_batches >= 2
    /\ final_training_batch_size < batch_size
    /\ Len(testing_batch_lens) >= 1

HasSplit == args.call = "train" /\ "reseed" \in Range(effects)

\* C2: num_testing_samples is test_proportion * N rounded to the nearest
\* integer (a half to the even one) and num_training_samples is the rest;
\* after the split the shuffled order holds every row once, the testing
\* partition is its first num_testing_samples rows and the training
\* partition the remaining ones, so the two are disjoint and cover the
\* dataset.
C2_Partition ==
    /\ num_samples >= 1 =>
           LET num == test_proportion[1] * num_samples
               den == test_proportion[2]
               nt  == num_testing_samples
           IN  /\ 2 * num - den <= 2 * den * nt
               /\ 2 * den * nt <= 2 * num + den
               /\ (2 * den * nt \in {2 * num - den, 2 * num + den} => nt % 2 = 0)
               /\ num_training_samples = num_samples - nt
    /\ HasSplit =>
           LET rest == {all_data[i] : i \in (num_testing_samples + 1)..num_samples}
           IN  /\ Len(all_data) = num_samples
               /\ Range(all_data) = 1..num_samples
               /\ testing_data = SubSeq(all_data, 1, num_testing_samples)
               /\ testing_input = testing_data
               /\ training_input =
                      SubSeq(all_data, num_testing_samples + 1, num_samples)
               /\ Len(training_data) = num_training_samples
               /\ Range(training_data) = rest
               /\ Range(testing_data) \cap Range(training_data) = {}
               /\ Range(testing_data) \cup Range(training_data) = 1..num_samples

\* A training batch runs on a split with a testing row, several training
\* rows and a shuffled order that is not the order of the file.
C2_Witness ==
    /\ pc = "dense_train"
    /\ num_testing_samples >= 1
    /\ num_training_samples >= 2
    /\ all_data # [i \in 1..num_samples |-> i]

\* C3: a train call that has split the dataset has the testing rows and the
\* training rows of the process's previous train call, whatever the two
\* calls' arguments and whatever state the random source was in.
C3_SameSplit ==
    (HasSplit /\ prev_split # <<>>) =>
        /\ Range(testing_data) = prev_split[1].testing
        /\ Range(training_data) = prev_split[1].training

\* A second train call, adversarial, has split a dataset with a testing row.
C3_Witness ==
    /\ pc = "gan_train"
    /\ prev_split # <<>>
    /\ num_testing_samples >= 1
    /\ num_training_samples >= 2

\* A training batch of the running epoch has been processed.
GanBatchDone ==
    /\ args.call = "train" /\ args.use_gan
    /\ pc \in {"gan_train", "gan_test", "gan_epoch_end"}
    /\ training_batch_lens # <<>>

\* Rules 1-3: pausing is off for the whole epoch ep.
NeverPauseEpoch(ps, ep) ==
    \/ ~ps.gan_enable_pause
    \/ ep < ps.pause_min_epochs
    \/ (ps.pause_max_epochs > 0 /\ ep > ps.pause_max_epochs)

\* C4: in adversarial training no training batch pauses a side when pausing
\* is disabled, or epoch < pause_min_epochs, or pause_max_epochs > 0 and
\* epoch > pause_max_epochs; the rows recorded for those epochs have both
\* paused counts 0.
C4_NeverPauseEpochs ==
    /\ (GanBatchDone /\ NeverPauseEpoch(args.pause, epoch)) =>
           ~pause_discriminator /\ ~pause_generator
    /\ \A e \in 1..Len(epoch_losses) :
           NeverPauseEpoch(args.pause, e - 1) =>
               /\ epoch_losses[e].num_discriminator_training_paused = 0
               /\ epoch_losses[e].num_generator_training_paused = 0

\* With pausing enabled and pause_max_epochs = 1, the epoch 1 paused the
\* discriminator and the epoch 2 has been recorded.
C4_Witness ==
    /\ Len(epoch_losses) = 3
    /\ args.pause.gan_enable_pause
    /\ args.pause.pause_max_epochs = 1
    /\ epoch_losses[2].num_discriminator_training_paused > 0
    /\ epoch_losses[3].num_discriminator_training_paused = 0

\* None of the rules 1-4 applied to the training batch just processed.
PauseDecidedByLosses ==
    /\ GanBatchDone
    /\ ~NeverPauseEpoch(args.pause, epoch)
    /\ samples_at_batch_start >= args.pause.pause_min_samples_per_epoch

C6_MinimumDose ==
    /\ (GanBatchDone
        /\ samples_at_batch_start < args.pause.pause_min_samples_per_epoch) =>
           ~pause_discriminator /\ ~pause_generator
    /\ pc = "gan_epoch_end" =>
           current_epoch_num_discriminator_training_samples >=
               Min(args.pause.pause_min_samples_per_epoch, num_training_samples)
    /\ \A e \in 1..Len(epoch_losses) :
           epoch_losses[e].num_training_samples
               - epoch_losses[e].num_discriminator_training_paused >=
               Min(args.pause.pause_min_samples_per_epoch, num_training_samples)

\* An epoch with pause_min_samples_per_epoch = 2 trained the discriminator
\* on exactly 2 of its 3 samples.
C6_Witness ==
    /\ Len(epoch_losses) >= 1
    /\ args.pause.pause_min_samples_per_epoch = 2
    /\ epoch_losses[1].num_training_samples = 3
    /\ epoch_losses[1].num_discriminator_training_paused = 1

\* C7: the table run saves with boundary filtering holds a row exactly when
\* every predicted column is within its bounds, bounds included, in the
\* order of the file; the discarded count run reports is rows before minus
\* rows after; without filtering every row is saved.
C7_BoundaryFilter ==
    saved # <<>> =>
        LET rows == saved[1].rows
            kept == {i \in 1..csv_n :
                        \A j \in 1..num_sim_inputs :
                            /\ sim_input_mins[j] <= npoutput[i][j]
                            /\ npoutput[i][j] <= sim_input_maxs[j]}
        IN  IF args.output_keep_out_of_bounds_samples
            THEN rows = [i \in 1..csv_n |-> i]
            ELSE /\ Range(rows) = kept
                 /\ \A a, b \in 1..Len(rows) : a < b => rows[a] < rows[b]
                 /\ \A m \in 1..Len(messages) :
                        messages[m].kind = "discarded" =>
                            messages[m].discarded = csv_n - Len(rows)
                 /\ (Len(rows) < csv_n) =>
                        \E m \in 1..Len(messages) : messages[m].kind = "discarded"

\* A filtered table was saved that lost a row from between two kept rows,
\* one of them with a prediction on its upper bound.
C7_Witness ==
    /\ saved # <<>>
    /\ ~args.output_keep_out_of_bounds_samples
    /\ \E a \in 1..(Len(saved[1].rows) - 1) :
           saved[1].rows[a + 1] > saved[1].rows[a] + 1
    /\ \E i \in Range(saved[1].rows) : npoutput[i][1] = sim_input_maxs[1]

SecondRun ==
    /\ pc = "done" /\ args.call = "run"
    /\ prev_run # <<>>
    /\ prev_run[1].args = args

SameAsPreviousRun ==
    /\ npoutput = prev_run[1].npoutput
    /\ saved = prev_run[1].saved
    /\ messages = prev_run[1].messages

\* C8 as claimed: a run with the arguments of the process's previous run,
\* on the same model and dataset, has the same predictions, saved table and
\* warnings, in regression mode and in adversarial mode.
C8_RunTwiceSame == SecondRun => SameAsPreviousRun

\* C8 as amended: a run in regression mode with the arguments of the
\* process's previous run, on the same model and dataset, has the same
\* predictions, saved table and warnings.
C8_RegressionRunTwiceSame == (SecondRun /\ ~args.use_gan) => SameAsPreviousRun

\* A regression run repeats the previous run on several rows.
C8_Witness ==
    /\ SecondRun /\ ~args.use_gan
    /\ Len(npoutput) >= 2
    /\ messages # <<>>

\* C9: a train call without load_data_path or save_model_path or with
\* num_epochs < 1, and a run call without one of its three paths, raises a
\* configuration error having done nothing; a call on an empty dataset
\* raises having only read the file: no model, no seeding, no epoch, nothing
\* saved.
C9_FailsBeforeWork ==
    LET rejected ==
            \/ /\ args.call = "train"
               /\ \/ args.load_data_path = None
                  \/ args.save_model_path = None
                  \/ args.num_epochs < 1
            \/ /\ args.call = "run"
               /\ \/ args.load_data_path = None
                  \/ args.save_data_path = None
                  \/ args.load_model_path = None
    IN  /\ (args.call # None /\ rejected) =>
               pc = "raised" /\ error = "config" /\ effects = <<>>
        /\ (args.call # None /\ ~rejected /\ csv_n = 0
            /\ pc \notin {"train_load", "run_load"}) =>
               /\ pc = "raised"
               /\ error \in {"config", "collaborator"}
               /\ effects = <<"load">>
               /\ epoch = 0 /\ saved = <<>>

\* run has raised the configuration error for an empty dataset.
C9_Witness ==
    /\ pc = "raised" /\ error = "config"
    /\ args.call = "run"
    /\ csv_n = 0
    /\ effects = <<"load">>

\* C10 as claimed: with gan_force_fixed_gen_params and a CSV file of gan_n
\* GAN columns, train passes the fixed-parameter check and every batch takes
\* its rows of those columns as latent parameters; the "no GAN generation
\* parameters" error is raised only for a CSV file without GAN columns.
C10_FixedGenParamsUsed ==
    /\ (args.call = "train" /\ args.use_gan /\ args.gan_force_fixed_gen_params
        /\ csv_gan_cols = args.gan_n) => error # "no_gan_params"
    /\ (pc = "raised" /\ error = "no_gan_params") => csv_gan_cols = 0
    /\ (GanBatchDone /\ args.gan_force_fixed_gen_params) =>
           /\ gan_gen_params.fixed
           /\ gan_gen_params.cols = args.gan_n
           /\ gan_gen_params.rows = batch_input

\* The file has GAN columns, but neither none nor gan_n of them.
GanColumnsMismatch ==
    /\ args.call \in {"train", "run"}
    /\ csv_gan_cols # 0 /\ csv_gan_cols # args.gan_n

EpochHasBegun ==
    /\ args.call = "train"
    /\ pc \in {"dense_train", "dense_test", "dense_epoch_end", "dense_stats",
               "gan_train", "gan_test", "gan_epoch_end", "gan_export",
               "train_save", "done"}

\* C11 as claimed: with k GAN columns in the file, k # 0 and k # gan_n, no
\* epoch of train begins and no forward pass of run takes place: the call
\* ends in the engine's column-count error.
C11_MismatchRaises ==
    GanColumnsMismatch =>
        /\ ~EpochHasBegun
        /\ "forward" \notin Range(effects)
        /\ pc = "done" => error = "gan_count"

\* C12 as claimed: a run with use_gan on a file of exactly gan_n GAN columns
\* samples no latent values, does not raise, feeds the Generator the file's
\* GAN columns and saves a table without appended GAN_<i> columns.
C12_FixedColumnsFed ==
    (args.call = "run" /\ args.use_gan /\ csv_n >= 1
     /\ csv_gan_cols = args.gan_n) =>
        /\ "rand" \notin Range(effects)
        /\ pc # "raised"
        /\ "forward" \in Range(effects) =>
               npoutput = [i \in 1..csv_n |->
                              Generator(model_w, csv_input[i],
                                        [c \in 1..csv_gan_cols |-> CsvGan(i, c)])]
        /\ saved # <<>> =>
               \A c \in 1..Len(saved[1].columns) : saved[1].columns[c][1] # "GAN"

\* C13: a run with use_gan on a file without GAN columns saves a table
\* whose last gan_n columns are GAN_0 .. GAN_(gan_n-1) and which has no
\* other GAN column; every saved row carries in them the sampled values (0
\* and 1 here, for two numbers of [0, 1)) from which the Generator produced
\* that row's predictions.
C13_SampledColumnsAppended ==
    (args.call = "run" /\ args.use_gan /\ csv_gan_cols = 0 /\ saved # <<>>) =>
        LET columns == saved[1].columns
            first   == Len(columns) - args.gan_n
        IN  /\ first = num_sim_in_out_columns + num_sim_in_columns
            /\ \A c \in 1..Len(columns) :
                   IF c > first THEN columns[c] = <<"GAN", c - first - 1>>
                   ELSE columns[c][1] # "GAN"
            /\ Len(saved[1].gan) = Len(saved[1].rows)
            /\ \A k \in 1..Len(saved[1].rows) :
                   LET z == saved[1].gan[k]
                       i == saved[1].rows[k]
                   IN  /\ Len(z) = args.gan_n
                       /\ \A c \in 1..Len(z) : z[c] \in {0, 1}
                       /\ z = run_gan_gen_params[1][i]
                       /\ npoutput[i] = Generator(model_w, csv_input[i], z)

\* A filtered table with two GAN columns was saved whose rows carry
\* different latent values.
C13_Witness ==
    /\ args.call = "run" /\ args.use_gan /\ csv_gan_cols = 0 /\ saved # <<>>
    /\ args.gan_n = 2
    /\ Len(saved[1].rows) >= 2
    /\ Len(saved[1].rows) < csv_n
    /\ saved[1].gan[1] # saved[1].gan[2]

\* C14: after regression training with save_data_path the exported table
\* has the columns is_training, mse_<label_1..k> and 2 * num_epochs rows:
\* row e holds is_training = 0 and the testing MSE recorded in epoch e, row
\* num_epochs + e holds is_training = 1 and the training MSE recorded in
\* epoch e; without save_data_path nothing is exported.
C14_MseExport ==
    (args.call = "train" /\ ~args.use_gan /\ pc \in {"train_save", "done"}) =>
        IF args.save_data_path = None
        THEN mse_output = <<>> /\ "save_data" \notin Range(effects)
        ELSE /\ mse_output # <<>>
             /\ mse_output[1].columns =
                    <<"is_training">>
                    \o [j \in 1..num_sim_inputs |-> <<"mse", <<"label", j>>>>]
             /\ Len(mse_output[1].rows) = 2 * args.num_epochs
             /\ \A e \in 0..(args.num_epochs - 1) :
                    /\ epoch_testing_mse[e + 1] = Mse("testing", e)
                    /\ epoch_training_mse[e + 1] = Mse("training", e)
                    /\ mse_output[1].rows[e + 1] = <<0, epoch_testing_mse[e + 1]>>
                    /\ mse_output[1].rows[args.num_epochs + e + 1] =
                           <<1, epoch_training_mse[e + 1]>>

\* A regression training of several epochs with testing rows has exported
\* its table.
C14_Witness ==
    /\ args.call = "train" /\ ~args.use_gan /\ pc = "done"
    /\ mse_output # <<>>
    /\ args.num_epochs >= 2
    /\ num_testing_samples >= 1

\* C15 as claimed: a run that has done its forward pass does not raise, and
\* when it is done it has logged its diagnostics, reported the MSE and then
\* called the external save, exactly once and as its last effect, also for a
\* table from which the filter removed every row.
C15_DiagnosticsNeverAbort ==
    (args.call = "run" /\ "forward" \in Range(effects)) =>
        /\ pc # "raised"
        /\ pc = "done" =>
               /\ saved # <<>>
               /\ Len(effects) >= 2
               /\ SubSeq(effects, Len(effects) - 1, Len(effects)) =
                      <<"mse_report", "save_data">>
               /\ \A e \in 1..(Len(effects) - 1) : effects[e] # "save_data"

\* A training batch of the running epoch was the last batch processed.
TrainingBatchDone ==
    /\ args.call = "train"
    /\ pc \in {"dense_train", "dense_test", "dense_epoch_end",
               "gan_train", "gan_test", "gan_epoch_end"}
    /\ training_batch_lens # <<>> /\ testing_batch_lens = <<>>

\* C16 as claimed: training batch i of an epoch is the rows
\* [i * batch_size, (i + 1) * batch_size) of the order into which the epoch
\* has shuffled the training partition.
C16_BatchesOfShuffledOrder ==
    TrainingBatchDone =>
        batch_input = BatchRows(training_data, Len(training_batch_lens) - 1,
                                batch_size)

\* C17 as claimed: in every adversarial training batch and testing batch the
\* discriminator's second forward pass, the one whose answer gives the
\* "generated" loss and the generator loss, takes as labels what the
\* Generator produced for the batch from its input and latent parameters.
C17_SecondPassOnSynthetic ==
    (args.call = "train" /\ args.use_gan
     /\ pc \in {"gan_train", "gan_test", "gan_epoch_end"}
     /\ (training_batch_lens # <<>> \/ testing_batch_lens # <<>>)) =>
        second_pass_labels = GeneratorOutput(batch_input, gan_gen_params)

\* The rows [i * b, (i + 1) * b) of a partition of n rows, clipped to it.
RowRange(i, b, n) == {r \in 0..(n - 1) : i * b <= r /\ r < (i + 1) * b}

RangesPartition(count, b, n) ==
    /\ \A i, j \in 0..(count - 1) :
           i # j => RowRange(i, b, n) \cap RowRange(j, b, n) = {}
    /\ UNION {RowRange(i, b, n) : i \in 0..(count - 1)} = 0..(n - 1)

WrittenOnceIn(buffer, n, e) ==
    /\ Len(buffer) = n
    /\ \A i \in 1..n : buffer[i] = [epoch |-> e, writes |-> 1]

\* C18: in every epoch of either trainer both per-epoch buffers are cleared
\* before the first batch; the row ranges of the batches of a partition are
\* pairwise disjoint and cover it; so when the epoch's metrics are computed
\* every row of a buffer was written exactly once, in this epoch.
C18_BuffersWrittenOnce ==
    /\ num_samples >= 1 =>
           /\ RangesPartition(num_training_batches, batch_size, num_training_samples)
           /\ RangesPartition(num_testing_batches, batch_size, num_testing_samples)
    /\ (args.call = "train" /\ pc \in {"dense_train", "gan_train"}
        /\ training_batch_lens = <<>>) =>
           /\ current_epoch_training_errors =
                  [i \in 1..num_training_samples |-> ClearedRow]
           /\ current_epoch_testing_errors =
                  [i \in 1..num_testing_samples |-> ClearedRow]
    /\ (TrainingBatchDone /\ Len(training_batch_lens) = num_training_batches) =>
           WrittenOnceIn(current_epoch_training_errors, num_training_samples, epoch)
    /\ (args.call = "train" /\ pc \in {"dense_epoch_end", "gan_epoch_end"}) =>
           /\ WrittenOnceIn(current_epoch_training_errors, num_training_samples,
                            epoch)
           /\ WrittenOnceIn(current_epoch_testing_errors, num_testing_samples,
                            epoch)

\* The second epoch of an adversarial training, with several training
\* batches and a testing batch, is at its end.
C18_Witness ==
    /\ args.call = "train" /\ pc = "gan_epoch_end"
    /\ epoch = 1
    /\ num_training_batches >= 2
    /\ num_testing_batches >= 1

\* C19: the batches of a train call run in the order epoch by epoch, in
\* every epoch the training batches 0, 1, ... and then the testing batches
\* 0, 1, ...; a testing batch propagates no loss back, steps no optimizer
\* and takes no pause decision; in regression mode every training batch
\* steps the optimizer once, num_training_batches times in an epoch.
C19_BatchSchedule ==
    (args.call = "train" /\ events # <<>>) =>
        LET per == num_training_batches + num_testing_batches
        IN  /\ \A k \in 1..Len(events) :
                   LET ev == events[k]
                       r  == (k - 1) % per
                   IN  /\ ev.epoch = (k - 1) \div per
                       /\ ev.epoch <= epoch
                       /\ IF r < num_training_batches
                          THEN ev.phase = "training" /\ ev.batch = r
                          ELSE /\ ev.phase = "testing"
                               /\ ev.batch = r - num_training_batches
                       /\ ev.phase = "testing" =>
                              ev.backward = <<>> /\ ev.steps = <<>> /\ ~ev.decided
                       /\ (~args.use_gan /\ ev.phase = "training") =>
                              ev.backward = <<"loss">> /\ ev.steps = <<"optimizer">>
            /\ pc = "dense_epoch_end" =>
                   Sum([k \in 1..Len(events) |->
                           IF events[k].epoch = epoch THEN Len(events[k].steps)
                           ELSE 0]) = num_training_batches

\* The second epoch of a regression training, with several training batches
\* and a testing batch, is at its end.
C19_Witness ==
    /\ args.call = "train" /\ pc = "dense_epoch_end"
    /\ epoch = 1
    /\ num_training_batches >= 2
    /\ num_testing_batches >= 1

\* How often an optimizer occurs in the steps of a batch.
StepsOf(side, steps) == Cardinality({k \in 1..Len(steps) : steps[k] = side})

\* The rows of the training batches of epoch e that paused a side.
PausedRows(e, side) ==
    Sum([k \in 1..Len(events) |->
            IF /\ events[k].epoch = e /\ events[k].phase = "training"
               /\ IF side = "discriminator" THEN events[k].pause_discriminator
                  ELSE events[k].pause_generator
            THEN events[k].rows ELSE 0])

IsGeneratorCall(x) == x \in {"manual_seed", "randperm", "reseed", "rand"}

\* The calls the running train() has made on torch's generator, in order.
GeneratorCallsSoFar == SelectSeq(effects, IsGeneratorCall)

\* C21: in every train() the generator is seeded with the split seed, the
\* split's permutation is drawn and the generator is reseeded, in that order
\* and with nothing else in between; every later call on the generator is a
\* per-epoch shuffle or a latent sampling, and none is a second seeding.
C21_ReseedOnceAfterSplit ==
    args.call = "train" =>
        LET calls == GeneratorCallsSoFar
        IN  /\ pc = "train_check_gan" =>
                   calls = <<"manual_seed", "randperm", "reseed">>
            /\ calls # <<>> =>
                   /\ Len(calls) >= 3
                   /\ calls[1] = "manual_seed"
                   /\ calls[2] = "randperm"
                   /\ calls[3] = "reseed"
                   /\ \A i \in 4..Len(calls) : calls[i] \in {"randperm", "rand"}

\* An adversarial training has split, shuffled for an epoch and sampled
\* latent parameters for a batch.
C21_Witness ==
    /\ args.call = "train" /\ args.use_gan
    /\ Len(GeneratorCallsSoFar) >= 5
    /\ GeneratorCallsSoFar[4] = "randperm"
    /\ GeneratorCallsSoFar[5] = "rand"

\* run() is past its diagnostics.
DiagnosticsDone == args.call = "run" /\ pc \in {"run_save", "done"}

\* Are the predictions of the column j all identical?
AllTheSame(j) == \A i \in 1..Len(npoutput) : npoutput[i][j] = npoutput[1][j]

\* The column j has the 'all predictions are the same' warning and not the
\* warning about little variance.
SameWarningOnly(j) ==
    /\ \E m \in Range(messages) : m.kind = "all_the_same" /\ m.column = j
    /\ ~\E m \in Range(messages) : m.kind = "little_variance" /\ m.column = j

\* C22, as stated: with one input row or more, every predicted column whose
\* predictions are all identical has the 'all the same' warning and not the
\* low-variance warning.
C22_SameWarningAnyRows ==
    (DiagnosticsDone /\ Len(npoutput) >= 1) =>
        \A j \in 1..num_sim_in_columns : AllTheSame(j) => SameWarningOnly(j)

\* C22, amended: the same with two input rows or more.
C22_SameWarning ==
    (DiagnosticsDone /\ Len(npoutput) >= 2) =>
        \A j \in 1..num_sim_in_columns : AllTheSame(j) => SameWarningOnly(j)

\* The diagnostics have run on three rows or more; one predicted column is
\* constant and another is not.
C22_Witness ==
    /\ DiagnosticsDone /\ Len(npoutput) >= 3
    /\ \E j \in 1..num_sim_in_columns : AllTheSame(j)
    /\ \E j \in 1..num_sim_in_columns : ~AllTheSame(j)

\* The regression training has printed its statistics report with the
\* automatic column width.
AutoSizedReport ==
    /\ args.call = "train" /\ stat_report # <<>>
    /\ stat_report[1].auto_size_formatting

\* Does the longest line of the report fit the terminal at the width w?
ReportFits(w) ==
    MaxLineLen(stat_fmt_lines(stat_report[1].lines, w))
        <= stat_report[1].columns

\* C23: the width of the statistics report is in [0, start], where start is
\* 30 with a known terminal width and 13 without; and with a known terminal
\* width, when some width of [0, start] makes the longest line fit the
\* terminal, the chosen width makes it fit too.
C23_WidthFitsTerminal ==
    AutoSizedReport =>
        LET start == IF stat_report[1].columns > 1 THEN 30 ELSE 13
        IN  /\ stat_report[1].float_str_min_len \in 0..start
            /\ (/\ stat_report[1].columns > 1
                /\ \E w \in 0..start : ReportFits(w)) =>
                   ReportFits(stat_report[1].float_str_min_len)

\* run() has been through the construction of its output table.
TableConstructionDone ==
    args.call = "run" /\ "forward" \in Range(effects) /\ pc # "run_table"

\* C24: in a run with or without use_gan, on a CSV file with gan_n GAN
\* columns or with none, the construction of the output table succeeds: the
\* table has as many column names as the assembled data has columns, and the
\* pred_<name> columns come right after the label and input columns, in the
\* order of the labels.
C24_NamesMatchData ==
    (TableConstructionDone /\ csv_gan_cols \in {0, args.gan_n}) =>
        /\ error # "ValueError"
        /\ Len(output_columns) =
               ExpandedCols(GanFixedGen(GanCols(all_data_cols)),
                            run_gan_gen_params, args.gan_n)
        /\ \A j \in 1..num_sim_in_columns :
               output_columns[num_sim_in_out_columns + j] = <<"pred", <<"label", j>>>>

====
